---- MODULE Spec2Model ----
(***************************************************************************)
(* Model of bigfastapi's bank-account endpoints (bigfastapi/banks.py) and  *)
(* customer database services (bigfastapi/models/customer_models.py).      *)
(*                                                                         *)
(* The relational tables are sequences of rows in insertion order; a row   *)
(* is a function from column names to values.  Every request owns an ORM   *)
(* session (unit of work): attribute assignments stay in the session until *)
(* a flush writes them inside the request's transaction, and a commit      *)
(* publishes the transaction's writes to the other requests.               *)
(***************************************************************************)
EXTENDS Integers, Sequences, FiniteSets, TLC

VARIABLES
    banks,      \* table of bank_models.BankModels rows
    autoflush,  \* the Session's autoflush setting (db.database.get_db)
    resp,       \* the last call and what it answered
    reqs,       \* concurrent update_bank_details requests in flight
    customers,  \* table "customer"
    now,        \* datetime.now(), as a counter
    country_info \* BankValidator.country_info, loaded from data/bank.json

vars == <<banks, autoflush, resp, reqs, customers, now, country_info>>

custVars == <<customers, now>>

\* What no request changes: the session factory and the loaded table.
setup == <<autoflush, country_info>>

----------------------------------------------------------------------------
(* Bounds of the model. *)

\* Rows the two tables may hold together.
MaxRows == 2

\* Ticks of the clock: customer creations and updates.
MaxClock == 3

----------------------------------------------------------------------------
(* Organizations, users, membership. *)

Orgs == {"org1", "org2"}

Users == {"u0", "u1", "u2"}

\* organisation_models.is_organization_member(user_id, organization_id, db):
\* u1 belongs to org1, u2 to org2, u0 to no organization.
is_organization_member(user_id, organization_id) ==
    <<user_id, organization_id>> \in {<<"u1", "org1">>, <<"u2", "org2">>}

----------------------------------------------------------------------------
(* Bank rows and request bodies. *)

\* The columns update_bank_details assigns (banks.py 131-141).
DetailCols == {"account_number", "bank_name", "recipient_name", "country",
               "sort_code", "swift_code", "bank_address", "account_type",
               "aba_routing_number", "iban"}

MutableCols == DetailCols \cup {"is_preferred"}

BankCols == MutableCols \cup
            {"id", "organisation_id", "creator_id", "is_deleted", "date_created"}

\* Two complete sets of detail values a request body may carry.
Details == { [c \in DetailCols |-> "x"], [c \in DetailCols |-> "y"] }

\* bank_schemas.AddBank: the body of POST /banks and PUT /banks/{bank_id}.
AddBank == { d @@ [organisation_id |-> o, is_preferred |-> p, date_created |-> 0] :
             d \in Details, o \in Orgs, p \in BOOLEAN }

NoBody == [none |-> TRUE]

BankIds == 1..(MaxRows + 1)

\* banks.py 44-58: the row add_bank_detail builds (uuid4().hex is a fresh id).
NewBank(id, user, bank) ==
    [c \in BankCols |->
        CASE c = "id"              -> id
          [] c = "creator_id"      -> user
          [] c = "is_deleted"      -> FALSE
          [] OTHER                 -> bank[c]]

----------------------------------------------------------------------------
(* The ORM session: identity map, flush, commit. *)

EmptyMap == [x \in {} |-> x]

\* attrs: the loaded objects' attributes; snap: their values at the last
\* load or flush; written: the transaction's uncommitted writes.
NewSession == [attrs |-> EmptyMap, snap |-> EmptyMap, written |-> EmptyMap]

\* What a transaction reads: the committed table under its own writes.
View(db, s) ==
    [i \in 1..Len(db) |->
        [c \in BankCols |->
            IF i \in DOMAIN s.written /\ c \in DOMAIN s.written[i]
            THEN s.written[i][c] ELSE db[i][c]]]

\* A query returns the identity map's object when the row is already loaded.
Load(db, s, id) ==
    IF id \in DOMAIN s.attrs THEN s
    ELSE [s EXCEPT !.attrs = (id :> View(db, s)[id]) @@ s.attrs,
                   !.snap  = (id :> View(db, s)[id]) @@ s.snap]

SetAttr(s, id, col, val) ==
    [s EXCEPT !.attrs = [s.attrs EXCEPT ![id] = [s.attrs[id] EXCEPT ![col] = val]]]

Dirty(s, id) == {c \in BankCols : s.attrs[id][c] # s.snap[id][c]}

\* session.flush(): UPDATE the changed columns of every dirty object.
Flush(s) ==
    [attrs |-> s.attrs,
     snap  |-> s.attrs,
     written |->
        [i \in (DOMAIN s.written) \cup {j \in DOMAIN s.attrs : Dirty(s, j) # {}} |->
            [c \in (IF i \in DOMAIN s.written THEN DOMAIN s.written[i] ELSE {})
                   \cup (IF i \in DOMAIN s.attrs THEN Dirty(s, i) ELSE {}) |->
                IF i \in DOMAIN s.attrs /\ c \in Dirty(s, i)
                THEN s.attrs[i][c] ELSE s.written[i][c]]]]

\* db.commit(): flush, publish the writes, expire every object.
CommitDb(db, s) == View(db, Flush(s))

----------------------------------------------------------------------------
(* bank_models services used by the endpoints. *)

\* bank_models.fetch_bank(user, id, db): the non-deleted row with this id,
\* or 0 when there is none (the caller answers 404).
fetch_bank(db, id) ==
    IF id \in 1..Len(db) /\ db[id]["is_deleted"] = FALSE THEN id ELSE 0

\* bank_models.add_bank(user, addbank, db): persist the new row.
add_bank(db, addbank) == Append(db, addbank)

\* bank_models.update_bank(addBank, db): commit what the session holds.
update_bank(db, s) == CommitDb(db, s)

----------------------------------------------------------------------------
(* The steps of update_bank_details (banks.py 130-150). *)

\* banks.py 131-141: every mutable column is assigned from the body.
AssignFields(s, id, bank) ==
    [s EXCEPT !.attrs =
        [s.attrs EXCEPT ![id] =
            [c \in BankCols |-> IF c \in MutableCols THEN bank[c] ELSE s.attrs[id][c]]]]

\* The session as the query of line 144 finds it: an autoflush session
\* flushes the pending assignments before it queries.
BeforeQuery(s, af) == IF af THEN Flush(s) ELSE s

\* banks.py 144: the rows filter_by(is_preferred=True) matches; first(),
\* without ORDER BY, returns any one of them.
PreferredRows(db, s) ==
    {i \in 1..Len(db) : View(db, s)[i]["is_preferred"] = TRUE}

\* banks.py 144: the object first() returns for row cur.
QueryFirst(db, s, cur) == Load(db, s, cur)

\* banks.py 146: current_preferred_bank.is_preferred = False
ClearPreferred(s, cur) == SetAttr(s, cur, "is_preferred", FALSE)

----------------------------------------------------------------------------
(* BankValidator (banks.py 213-233) over the table of data/bank.json. *)

\* The fields of a country's entry; "schema" is the one banks.py reads.
EntryFields == {"schema", "metadata"}

\* The entry of a country: each field's value names the country it is of.
Entry(country, fields) == [f \in fields |-> <<country, f>>]

\* A table: the supported countries' entries and the catch-all "others".
Table(supported, others_fields) ==
    [c \in supported \cup {"others"} |->
        IF c = "others" THEN Entry(c, others_fields) ELSE Entry(c, EntryFields)]

DefaultTable == Table({"US", "NG"}, EntryFields)

\* The info argument: not given (None), or a string.
NoInfo == [given |-> FALSE]

Info(key) == [given |-> TRUE, key |-> key]

KeyError == [kind |-> "KeyError"]

\* d[key], which raises KeyError for a missing key.
GetItem(d, key) == IF key \in DOMAIN d THEN [kind |-> "field", value |-> d[key]] ELSE KeyError

\* banks.py 219-227
CountryData(table, country, info) ==
    IF country \notin DOMAIN table /\ ~info.given
    THEN [kind |-> "entry", value |-> table["others"]]
    ELSE IF country \notin DOMAIN table
    THEN GetItem(table["others"], info.key)
    ELSE IF info.given /\ info.key # ""
    THEN GetItem(table[country], info.key)
    ELSE [kind |-> "entry", value |-> table[country]]

\* banks.py 229-233
SupportedCountry(table, country) == \E data \in DOMAIN table : data = country

----------------------------------------------------------------------------
(* Responses. *)

NoData == [none |-> TRUE]

Reply(op, user, bank_id, body, status, data) ==
    [op |-> op, user |-> user, bank_id |-> bank_id, body |-> body,
     status |-> status, data |-> data]

\* Every ordering of a set of rows: a query without ORDER BY.
RECURSIVE Orderings(_)
Orderings(S) ==
    IF S = {} THEN {<< >>}
    ELSE UNION { { <<x>> \o t : t \in Orderings(S \ {x}) } : x \in S }

----------------------------------------------------------------------------
(* The bank endpoints, one request served at a time. *)

\* POST /banks
add_bank_detail(user, bank) ==
    /\ Len(banks) + Len(customers) < MaxRows
    /\ IF ~is_organization_member(user, bank["organisation_id"])
       THEN /\ resp' = Reply("add", user, 0, bank, "Forbidden", NoData)
            /\ UNCHANGED banks
       ELSE LET addbank == NewBank(Len(banks) + 1, user, bank)
            IN /\ banks' = add_bank(banks, addbank)
               /\ resp' = Reply("add", user, Len(banks) + 1, bank, "Created", addbank)
    /\ UNCHANGED <<setup, reqs, custVars>>

\* GET /banks/organizations/{organization_id}
get_organization_bank_accounts(user, organization_id) ==
    /\ IF ~is_organization_member(user, organization_id)
       THEN resp' = Reply("list", user, 0, [organisation_id |-> organization_id],
                          "Forbidden", NoData)
       ELSE \E banks_list \in Orderings(
                   {banks[i] : i \in {j \in 1..Len(banks) :
                        /\ banks[j]["organisation_id"] = organization_id
                        /\ banks[j]["is_deleted"] = FALSE}}) :
               resp' = Reply("list", user, 0, [organisation_id |-> organization_id],
                             "OK", banks_list)
    /\ UNCHANGED <<banks, setup, reqs, custVars>>

\* GET /banks/{bank_id}
get_single_bank(user, bank_id) ==
    /\ LET bank == fetch_bank(banks, bank_id)
       IN IF bank = 0
          THEN resp' = Reply("get", user, bank_id, NoBody, "NotFound", NoData)
          ELSE resp' = Reply("get", user, bank_id, NoBody, "OK", banks[bank])
    /\ UNCHANGED <<banks, setup, reqs, custVars>>

\* PUT /banks/{bank_id}
update_bank_details(user, bank_id, bank) ==
    /\ IF ~is_organization_member(user, bank["organisation_id"])
       THEN /\ resp' = Reply("update", user, bank_id, bank, "Forbidden", NoData)
            /\ UNCHANGED banks
       ELSE IF fetch_bank(banks, bank_id) = 0
       THEN /\ resp' = Reply("update", user, bank_id, bank, "NotFound", NoData)
            /\ UNCHANGED banks
       ELSE LET s1 == AssignFields(Load(banks, NewSession, bank_id), bank_id, bank)
                s2 == IF bank["is_preferred"] THEN BeforeQuery(s1, autoflush) ELSE s1
                found == IF bank["is_preferred"] THEN PreferredRows(banks, s2) ELSE {}
            IN IF found # {}
               THEN \E cur \in found :
                      LET s3  == ClearPreferred(QueryFirst(banks, s2, cur), cur)
                          db1 == CommitDb(banks, s3)
                          db2 == update_bank(db1, NewSession)
                      IN /\ banks' = db2
                         /\ resp' = Reply("update", user, bank_id, bank, "OK", db2[bank_id])
               ELSE LET db2 == update_bank(banks, s2)
                    IN /\ banks' = db2
                       /\ resp' = Reply("update", user, bank_id, bank, "OK", db2[bank_id])
    /\ UNCHANGED <<setup, reqs, custVars>>

\* DELETE /banks/{bank_id}
delete_bank(user, bank_id) ==
    /\ LET bank == fetch_bank(banks, bank_id)
       IN IF bank = 0
          THEN /\ resp' = Reply("delete", user, bank_id, NoBody, "NotFound", NoData)
               /\ UNCHANGED banks
          ELSE IF ~is_organization_member(user, banks[bank]["organisation_id"])
          THEN /\ resp' = Reply("delete", user, bank_id, NoBody, "Forbidden", NoData)
               /\ UNCHANGED banks
          ELSE /\ banks' = CommitDb(banks,
                              SetAttr(Load(banks, NewSession, bank), bank, "is_deleted", TRUE))
               /\ resp' = Reply("delete", user, bank_id, NoBody, "OK", NoData)
    /\ UNCHANGED <<setup, reqs, custVars>>

NoResp == Reply("none", "u0", 0, NoBody, "none", NoData)

Init ==
    /\ banks = << >>
    /\ autoflush \in BOOLEAN
    /\ resp = NoResp
    /\ reqs = << >>
    /\ customers = << >>
    /\ now = 0
    /\ country_info = DefaultTable

Next ==
    \/ \E user \in Users, bank \in AddBank : add_bank_detail(user, bank)
    \/ \E user \in Users, o \in Orgs : get_organization_bank_accounts(user, o)
    \/ \E user \in Users, id \in BankIds : get_single_bank(user, id)
    \/ \E user \in Users, id \in BankIds, bank \in AddBank :
          update_bank_details(user, id, bank)
    \/ \E user \in Users, id \in BankIds : delete_bank(user, id)

Spec == Init /\ [][Next]_vars

----------------------------------------------------------------------------
(* Two update_bank_details requests served at once (several workers on one *)
(* database).  A request's statements run in order; between two statements *)
(* the other request may run.  A query reads what is committed; a row a    *)
(* transaction has written stays locked until that transaction commits.    *)

MemberOf(o) == CHOOSE u \in Users : is_organization_member(u, o)

\* Tables of live rows with at most one preferred account.
ConcStores ==
    UNION { { db \in [1..n -> {NewBank(0, MemberOf(b["organisation_id"]), b) :
                                 b \in {a \in AddBank : a["account_number"] = "x"}}] :
                Cardinality({i \in 1..n : db[i]["is_preferred"]}) <= 1 } :
            n \in 2..(MaxRows + 1) }

WithIds(db) == [i \in 1..Len(db) |-> [db[i] EXCEPT !["id"] = i]]

\* A request that sets is_preferred on account id, made by a member.
PreferRequest(user, id) ==
    [pc |-> "fetch", user |-> user, bank_id |-> id,
     bank |-> [c \in DetailCols |-> "y"] @@
              [organisation_id |-> IF user = "u1" THEN "org1" ELSE "org2",
               is_preferred |-> TRUE, date_created |-> 0],
     s |-> NewSession, cur |-> 0]

InitConc ==
    /\ \E db \in ConcStores : banks = WithIds(db)
    /\ autoflush \in BOOLEAN
    /\ resp = NoResp
    /\ \E a \in 1..Len(banks), b \in 1..Len(banks), ua \in {"u1", "u2"}, ub \in {"u1", "u2"} :
          /\ a < b
          /\ reqs = <<PreferRequest(ua, a), PreferRequest(ub, b)>>
    /\ customers = << >>
    /\ now = 0
    /\ country_info = DefaultTable

\* The rows a flush of s would write are locked by no other transaction.
Unlocked(r, s) ==
    \A q \in DOMAIN reqs \ {r} :
        (DOMAIN Flush(s).written) \cap (DOMAIN reqs[q].s.written) = {}

\* banks.py 124-130: the membership check, then fetch_bank.
ConcFetch(r) ==
    /\ reqs[r].pc = "fetch"
    /\ reqs' = [reqs EXCEPT ![r] =
          IF ~is_organization_member(reqs[r].user, reqs[r].bank["organisation_id"])
          THEN [@ EXCEPT !.pc = "forbidden"]
          ELSE IF fetch_bank(banks, reqs[r].bank_id) = 0
          THEN [@ EXCEPT !.pc = "notfound"]
          ELSE [@ EXCEPT !.pc = "assign",
                         !.s = Load(banks, NewSession, reqs[r].bank_id)]]
    /\ UNCHANGED <<banks, setup, resp, custVars>>

\* banks.py 131-143
ConcAssign(r) ==
    /\ reqs[r].pc = "assign"
    /\ reqs' = [reqs EXCEPT ![r] =
          [@ EXCEPT !.pc = IF reqs[r].bank["is_preferred"] THEN "query" ELSE "main",
                    !.s = AssignFields(reqs[r].s, reqs[r].bank_id, reqs[r].bank)]]
    /\ UNCHANGED <<banks, setup, resp, custVars>>

\* banks.py 144-145
ConcQuery(r) ==
    /\ reqs[r].pc = "query"
    /\ autoflush => Unlocked(r, reqs[r].s)
    /\ LET s2 == BeforeQuery(reqs[r].s, autoflush)
           found == PreferredRows(banks, s2)
       IN IF found = {}
          THEN reqs' = [reqs EXCEPT ![r] = [@ EXCEPT !.pc = "main", !.s = s2]]
          ELSE \E cur \in found :
                 reqs' = [reqs EXCEPT ![r] =
                    [@ EXCEPT !.pc = "clear", !.cur = cur,
                              !.s = QueryFirst(banks, s2, cur)]]
    /\ UNCHANGED <<banks, setup, resp, custVars>>

\* banks.py 146-148
ConcClear(r) ==
    /\ reqs[r].pc = "clear"
    /\ LET s3 == ClearPreferred(reqs[r].s, reqs[r].cur)
       IN /\ Unlocked(r, s3)
          /\ banks' = CommitDb(banks, s3)
          /\ reqs' = [reqs EXCEPT ![r] = [@ EXCEPT !.pc = "main", !.s = NewSession]]
    /\ UNCHANGED <<setup, resp, custVars>>

\* banks.py 150
ConcMain(r) ==
    /\ reqs[r].pc = "main"
    /\ Unlocked(r, reqs[r].s)
    /\ banks' = update_bank(banks, reqs[r].s)
    /\ reqs' = [reqs EXCEPT ![r] = [@ EXCEPT !.pc = "done", !.s = NewSession]]
    /\ UNCHANGED <<setup, resp, custVars>>

NextConc ==
    \/ \E r \in DOMAIN reqs : ConcFetch(r)
    \/ \E r \in DOMAIN reqs : ConcAssign(r)
    \/ \E r \in DOMAIN reqs : ConcQuery(r)
    \/ \E r \in DOMAIN reqs : ConcClear(r)
    \/ \E r \in DOMAIN reqs : ConcMain(r)

SpecConc == InitConc /\ [][NextConc]_vars

----------------------------------------------------------------------------
(* The customer table (customer_models.py 19-44). *)

\* The columns put_customer may assign, in the order of its statements.
UpdatableCols == {"first_name", "last_name", "unique_id", "email", "phone_number",
                  "location", "business_name", "gender", "age", "postal_code",
                  "language", "country", "city", "region", "country_code"}

CustCols == UpdatableCols \cup
            {"id", "customer_id", "organization_id", "auto_reminder",
             "is_deleted", "date_created", "last_updated"}

\* Strings are sequences of characters, so that LIKE can be computed.
Alphabet == <<"%", "1", "2", "3", "4", "5", "a", "b", "c", "k", "n", "o">>

Rank(ch) == CHOOSE i \in 1..Len(Alphabet) : Alphabet[i] = ch

RECURSIVE StrLess(_, _)
StrLess(a, b) ==
    IF b = << >> THEN FALSE
    ELSE IF a = << >> THEN TRUE
    ELSE IF Head(a) = Head(b) THEN StrLess(Tail(a), Tail(b))
    ELSE Rank(Head(a)) < Rank(Head(b))

\* SQL's  s LIKE pattern : % matches any run of characters, _ any one.
RECURSIVE Like(_, _)
Like(s, pattern) ==
    IF pattern = << >> THEN s = << >>
    ELSE IF Head(pattern) = "%"
         THEN Like(s, Tail(pattern)) \/ (s # << >> /\ Like(Tail(s), pattern))
    ELSE IF Head(pattern) = "_"
         THEN s # << >> /\ Like(Tail(s), Tail(pattern))
    ELSE s # << >> /\ Head(s) = Head(pattern) /\ Like(Tail(s), Tail(pattern))

\* generate_short_id(size=12) for the i-th row: a fresh short id.
ShortId(i) == <<"k", Alphabet[i + 1]>>

\* customer_models.py 60, 73, 99: size: int = 50
DefaultSize == 50

\* Python truthiness of an input field: "" , None and 0 are false.
Truthy(col, v) == IF col = "age" THEN v # 0 ELSE v # << >>

\* customer_schemas.CustomerBase / CustomerUpdate bodies: every field empty,
\* then the fields given.
Blank == [c \in UpdatableCols |-> IF c = "age" THEN 0 ELSE << >>]

Given(fields) == [c \in UpdatableCols |-> IF c \in DOMAIN fields THEN fields[c] ELSE Blank[c]]

\* customer_models.py 123-144: the row add_customer builds.
NewCustomer(id, customer, organization_id, t) ==
    [c \in CustCols |->
        CASE c = "id"              -> id
          [] c = "customer_id"     -> ShortId(id)
          [] c = "organization_id" -> organization_id
          [] c = "auto_reminder"   -> FALSE
          [] c = "is_deleted"      -> FALSE
          [] c = "date_created"    -> t
          [] c = "last_updated"    -> t
          [] OTHER                 -> customer[c]]

\* customer_models.py 177-206: <<column assigned, input field tested and read>>.
PutAssignments ==
    << <<"first_name", "first_name">>, <<"last_name", "last_name">>,
       <<"unique_id", "unique_id">>, <<"email", "email">>,
       <<"phone_number", "phone_number">>, <<"location", "location">>,
       <<"business_name", "business_name">>, <<"gender", "gender">>,
       <<"age", "age">>, <<"postal_code", "postal_code">>,
       <<"language", "language">>, <<"country", "country">>,
       <<"city", "city">>, <<"region", "region">>,
       <<"region", "country_code">> >>

RECURSIVE ApplyPut(_, _, _)
ApplyPut(customer, instance, k) ==
    IF k > Len(PutAssignments) THEN instance
    ELSE LET col == PutAssignments[k][1]
             src == PutAssignments[k][2]
         IN ApplyPut(customer,
                     IF Truthy(src, customer[src])
                     THEN [instance EXCEPT ![col] = customer[src]]
                     ELSE instance,
                     k + 1)

\* customer_models.py 172-210
put_customer(customer, customer_instance, t) ==
    [ApplyPut(customer, customer_instance, 1) EXCEPT !["last_updated"] = t]

----------------------------------------------------------------------------
(* The customer queries (customer_models.py 58-116, 213-216). *)

\* The scope filter without its is_deleted clause.
ScopedWithDeleted(db, organization_id) ==
    {db[i] : i \in {j \in 1..Len(db) : db[j]["organization_id"] = organization_id}}

\* filter(organization_id == organization_id).filter(is_deleted == False)
Scoped(db, organization_id) ==
    {db[i] : i \in {j \in 1..Len(db) :
                      /\ db[j]["organization_id"] = organization_id
                      /\ db[j]["is_deleted"] = FALSE}}

\* The order of two rows under ORDER BY col.
KeyLess(col, a, b) ==
    IF col \in {"date_created", "last_updated", "age", "id"}
    THEN a[col] < b[col]
    ELSE StrLess(a[col], b[col])

\* Every result order ORDER BY col [DESC] allows for the rows S.
OrderBy(S, col, descending) ==
    {s \in Orderings(S) :
        \A i \in 1..(Len(s) - 1) :
            IF descending THEN ~KeyLess(col, s[i], s[i + 1])
                          ELSE ~KeyLess(col, s[i + 1], s[i])}

Min(a, b) == IF a < b THEN a ELSE b

\* .offset(offset).limit(size)
OffsetLimit(s, offset, size) == SubSeq(s, offset + 1, Min(Len(s), offset + size))

\* customer_models.py 77-83: the name sub-query's rows.
NameMatches(db, organization_id, search_value) ==
    {r \in Scoped(db, organization_id) :
        \/ Like(r["first_name"], <<"%">> \o search_value \o <<"%">>)
        \/ Like(r["last_name"], <<"%">> \o search_value \o <<"%">>)}

\* customer_models.py 85-91: the id sub-query's rows.
IdMatches(db, organization_id, search_value) ==
    {r \in Scoped(db, organization_id) :
        \/ Like(r["unique_id"], search_value)
        \/ Like(r["customer_id"], search_value)}

\* getattr(Customer, sort_key, "first_name")
SortColumn(sort_key) == IF sort_key \in CustCols THEN sort_key ELSE "first_name"

CReply(op, args, status, data) ==
    [op |-> op, args |-> args, status |-> status, data |-> data]

\* customer_models.py 58-68
fetch_customers(organization_id, offset, size) ==
    /\ \E s \in OrderBy(Scoped(customers, organization_id), "date_created", TRUE) :
          resp' = CReply("fetch_customers",
                         [organization_id |-> organization_id, offset |-> offset, size |-> size],
                         "OK", OffsetLimit(s, offset, size))
    /\ UNCHANGED <<banks, setup, reqs, custVars>>

\* customer_models.py 70-94
search_customers(organization_id, search_value, offset, size) ==
    /\ \E by_name \in OrderBy(NameMatches(customers, organization_id, search_value),
                              "date_created", TRUE),
          by_id \in OrderBy(IdMatches(customers, organization_id, search_value),
                            "date_created", TRUE) :
          resp' = CReply("search_customers",
                         [organization_id |-> organization_id, search_value |-> search_value,
                          offset |-> offset, size |-> size],
                         "OK",
                         OffsetLimit(by_name, offset, size) \o OffsetLimit(by_id, offset, size))
    /\ UNCHANGED <<banks, setup, reqs, custVars>>

\* customer_models.py 96-116
sort_customers(organization_id, sort_key, offset, size, sort_dir) ==
    /\ \E s \in OrderBy(Scoped(customers, organization_id), SortColumn(sort_key),
                        sort_dir = "desc") :
          resp' = CReply("sort_customers",
                         [organization_id |-> organization_id, sort_key |-> sort_key,
                          offset |-> offset, size |-> size, sort_dir |-> sort_dir],
                         "OK", OffsetLimit(s, offset, size))
    /\ UNCHANGED <<banks, setup, reqs, custVars>>

\* customer_models.py 213-216: first() of the rows with this short id;
\* from_orm(None) raises when there is none.
get_customer_by_id(customer_id) ==
    /\ LET found == {i \in 1..Len(customers) : customers[i]["customer_id"] = customer_id}
       IN IF found = {}
          THEN resp' = CReply("get_customer_by_id", [customer_id |-> customer_id],
                              "Error", NoData)
          ELSE \E i \in found :
                 resp' = CReply("get_customer_by_id", [customer_id |-> customer_id],
                                "OK", customers[i])
    /\ UNCHANGED <<banks, setup, reqs, custVars>>

\* customer_models.py 118-148
add_customer(customer, organization_id) ==
    /\ Len(banks) + Len(customers) < MaxRows
    /\ now < MaxClock
    /\ now' = now + 1
    /\ LET customer_instance ==
               NewCustomer(Len(customers) + 1, customer, organization_id, now + 1)
       IN /\ customers' = Append(customers, customer_instance)
          /\ resp' = CReply("add_customer",
                            [organization_id |-> organization_id, customer |-> customer],
                            "OK", customer_instance)
    /\ UNCHANGED <<banks, setup, reqs>>

\* The update endpoint: put_customer on the row the caller looked up.
update_customer(i, customer) ==
    /\ i \in 1..Len(customers)
    /\ now < MaxClock
    /\ now' = now + 1
    /\ customers' = [customers EXCEPT ![i] = put_customer(customer, customers[i], now + 1)]
    /\ resp' = CReply("put_customer", [id |-> i, customer |-> customer, before |-> customers[i]],
                      "OK", customers'[i])
    /\ UNCHANGED <<banks, setup, reqs>>

\* The delete endpoint: soft delete; the UPDATE refreshes last_updated
\* (customer_models.py 43-44, onupdate).
soft_delete_customer(i) ==
    /\ i \in 1..Len(customers)
    /\ customers[i]["is_deleted"] = FALSE
    /\ now < MaxClock
    /\ now' = now + 1
    /\ customers' = [customers EXCEPT ![i] =
                        [@ EXCEPT !["is_deleted"] = TRUE, !["last_updated"] = now + 1]]
    /\ resp' = CReply("delete_customer", [id |-> i], "OK", NoData)
    /\ UNCHANGED <<banks, setup, reqs>>

----------------------------------------------------------------------------
(* The two stores together: customer services and bank endpoints. *)

Str(c) == <<c>>

\* Bodies of the customer create requests.
NewCustomers ==
    { Given([first_name |-> <<"a", "b">>, last_name |-> Str("c"), unique_id |-> <<"a", "b">>]),
      Given([first_name |-> Str("c"), last_name |-> Str("b"), unique_id |-> Str("a")]) }

\* Bodies of the customer update requests.
CustomerUpdates == { Given([first_name |-> Str("n")]) }

SearchValues == {Str("a"), <<"a", "b">>}

SortKeys == {"first_name", "nokey"}

Pages == {<<0, DefaultSize>>, <<1, 1>>}

\* Bodies of the bank requests made beside the customer calls.
PlainBanks == {b \in AddBank : b["account_number"] = "x" /\ b["is_preferred"] = FALSE}

CustomerIds == {ShortId(i) : i \in 1..(MaxRows + 1)}

InitData ==
    /\ banks = << >>
    /\ autoflush = FALSE
    /\ resp = NoResp
    /\ reqs = << >>
    /\ customers = << >>
    /\ now = 0
    /\ country_info = DefaultTable

NextData ==
    \/ \E c \in NewCustomers, o \in Orgs : add_customer(c, o)
    \/ \E i \in 1..MaxRows, c \in CustomerUpdates : update_customer(i, c)
    \/ \E i \in 1..MaxRows : soft_delete_customer(i)
    \/ \E o \in Orgs, pg \in Pages : fetch_customers(o, pg[1], pg[2])
    \/ \E o \in Orgs, v \in SearchValues, pg \in Pages : search_customers(o, v, pg[1], pg[2])
    \/ \E o \in Orgs, k \in SortKeys, pg \in Pages, d \in {"asc", "desc"} :
          sort_customers(o, k, pg[1], pg[2], d)
    \/ \E user \in Users, bank \in PlainBanks : add_bank_detail(user, bank)
    \/ \E user \in Users, o \in Orgs : get_organization_bank_accounts(user, o)
    \/ \E user \in Users, id \in BankIds : delete_bank(user, id)

SpecData == InitData /\ [][NextData]_vars

\* The single-record lookups of both stores, with create and delete.
NextLookup ==
    \/ \E c \in NewCustomers, o \in Orgs : add_customer(c, o)
    \/ \E i \in 1..MaxRows : soft_delete_customer(i)
    \/ \E id \in CustomerIds : get_customer_by_id(id)
    \/ \E user \in Users, bank \in PlainBanks : add_bank_detail(user, bank)
    \/ \E user \in Users, id \in BankIds : get_single_bank(user, id)
    \/ \E user \in Users, id \in BankIds, bank \in PlainBanks :
          update_bank_details(user, id, bank)
    \/ \E user \in Users, id \in BankIds : delete_bank(user, id)

SpecLookup == InitData /\ [][NextLookup]_vars

----------------------------------------------------------------------------
(* put_customer on its own: one update of one customer. *)

\* Fields an update body gives at most.
MaxGiven == 2

OldBody == [c \in UpdatableCols |-> IF c = "age" THEN 3 ELSE Str("o")]

NewValue(c) == IF c = "age" THEN 7 ELSE Str("n")

PutInputs ==
    { [c \in UpdatableCols |-> IF c \in S THEN NewValue(c) ELSE Blank[c]] :
      S \in {T \in SUBSET UpdatableCols : Cardinality(T) <= MaxGiven} }

InitPut ==
    /\ banks = << >>
    /\ autoflush = FALSE
    /\ resp = NoResp
    /\ reqs = << >>
    /\ \E body \in {OldBody, Blank} :
          customers = <<NewCustomer(1, body, "org1", MaxClock - 1)>>
    /\ now = MaxClock - 1
    /\ country_info = DefaultTable

NextPut == \E customer \in PutInputs : update_customer(1, customer)

SpecPut == InitPut /\ [][NextPut]_vars

----------------------------------------------------------------------------
(* The validator endpoints (banks.py 182-207) over the tables bank.json   *)
(* may hold.                                                               *)

Countries == {"US", "NG", "us", "Nigeria", "others"}

Infos == {NoInfo, Info(""), Info("schema"), Info("metadata"), Info("bogus")}

get_country_data(country, info) ==
    /\ LET r == CountryData(country_info, country, info)
       IN resp' = CReply("get_country_data", [country |-> country, info |-> info],
                         IF r = KeyError THEN "KeyError" ELSE "OK", r)
    /\ UNCHANGED <<banks, setup, reqs, custVars>>

validate_supported_country(country) ==
    /\ resp' = CReply("validate_supported_country", [country |-> country], "OK",
                      SupportedCountry(country_info, country))
    /\ UNCHANGED <<banks, setup, reqs, custVars>>

InitBV ==
    /\ banks = << >>
    /\ autoflush = FALSE
    /\ resp = NoResp
    /\ reqs = << >>
    /\ customers = << >>
    /\ now = 0
    /\ \E supported \in SUBSET {"US", "NG"}, others_fields \in {EntryFields, {"schema"}} :
          country_info = Table(supported, others_fields)

NextBV ==
    \/ \E country \in Countries, info \in Infos : get_country_data(country, info)
    \/ \E country \in Countries : validate_supported_country(country)

SpecBV == InitBV /\ [][NextBV]_vars

----------------------------------------------------------------------------
(* Properties of the bank endpoints. *)

Live(i) == i \in 1..Len(banks) /\ banks[i]["is_deleted"] = FALSE

PreferredOf(o) ==
    {i \in 1..Len(banks) : /\ banks[i]["organisation_id"] = o
                           /\ banks[i]["is_deleted"] = FALSE
                           /\ banks[i]["is_preferred"] = TRUE}

\* C1: get, update and delete of an account by a user outside its owning
\* organization end in Forbidden, and leave the table as it was.
C1_OutsiderForbidden ==
    [][ ( /\ resp'.op \in {"get", "update", "delete"}
          /\ Live(resp'.bank_id)
          /\ ~is_organization_member(resp'.user,
                                     banks[resp'.bank_id]["organisation_id"]) )
        => (resp'.status = "Forbidden" /\ banks' = banks) ]_vars

\* C2: every organization has at most one live account with is_preferred.
C2_OnePreferredPerOrg ==
    \A o \in Orgs : Cardinality(PreferredOf(o)) <= 1

\* C3: once both concurrent requests have committed, at most one account
\* has is_preferred.
C3_OnePreferredAfterBoth ==
    (\A r \in DOMAIN reqs : reqs[r].pc = "done")
        => Cardinality({i \in 1..Len(banks) : banks[i]["is_preferred"] = TRUE}) <= 1

\* C4: every record fetch_customers, search_customers and sort_customers
\* return for organization O is a live customer of O, and every record
\* get_organization_bank_accounts returns for O is a live account of O.
C4_ScopedResults ==
    /\ resp.op \in {"fetch_customers", "search_customers", "sort_customers"}
         => \A k \in 1..Len(resp.data) :
               /\ resp.data[k]["organization_id"] = resp.args.organization_id
               /\ resp.data[k]["is_deleted"] = FALSE
    /\ (resp.op = "list" /\ resp.status = "OK")
         => \A k \in 1..Len(resp.data) :
               /\ resp.data[k]["organisation_id"] = resp.body.organisation_id
               /\ resp.data[k]["is_deleted"] = FALSE

\* A customer query answered with some records while the table also holds a
\* customer it had to leave out: one deleted, or one of another organization.
C4_Witness ==
    /\ resp.op \in {"fetch_customers", "search_customers", "sort_customers"}
    /\ Len(resp.data) > 0
    /\ \E i \in 1..Len(customers) :
          \/ customers[i]["organization_id"] # resp.args.organization_id
          \/ customers[i]["is_deleted"] = TRUE

\* C5: a single-record lookup of an id that is unknown or soft-deleted ends
\* in NotFound: get_customer_by_id for customers; get, update and delete
\* (by a caller who passes the membership check) for bank accounts.
C5_LookupNotFound ==
    [][ /\ ( /\ resp'.op = "get_customer_by_id"
             /\ ~\E i \in 1..Len(customers) :
                    /\ customers[i]["customer_id"] = resp'.args.customer_id
                    /\ customers[i]["is_deleted"] = FALSE )
           => resp'.status = "NotFound"
        /\ ( /\ resp'.op \in {"get", "update", "delete"}
             /\ ~Live(resp'.bank_id)
             /\ resp'.op = "update"
                  => is_organization_member(resp'.user, resp'.body["organisation_id"]) )
           => resp'.status = "NotFound" ]_vars

\* C6: put_customer sets each updatable field to the input's value when
\* that is non-empty and keeps it otherwise, leaves id, customer_id,
\* organization_id, is_deleted and date_created alone, and sets last_updated.
C6_PartialUpdate ==
    resp.op = "put_customer"
        => /\ \A F \in UpdatableCols :
                 resp.data[F] = IF Truthy(F, resp.args.customer[F])
                                THEN resp.args.customer[F]
                                ELSE resp.args.before[F]
           /\ \A F \in {"id", "customer_id", "organization_id", "is_deleted", "date_created"} :
                 resp.data[F] = resp.args.before[F]
           /\ resp.data["last_updated"] = now

\* t occurs in s as a run of consecutive characters.
Contains(s, t) ==
    \E k \in 0..(Len(s) - Len(t)) : SubSeq(s, k + 1, k + Len(t)) = t

\* C7: search_customers returns the customers of O whose first or last name
\* contains the text, then those whose unique_id or customer_id contains
\* the text, each newest first and cut to [offset, offset + size).
C7_SearchSubstring ==
    resp.op = "search_customers"
        => LET O == resp.args.organization_id
               text == resp.args.search_value
               names == {r \in Scoped(customers, O) :
                            Contains(r["first_name"], text) \/ Contains(r["last_name"], text)}
               ids == {r \in Scoped(customers, O) :
                            Contains(r["unique_id"], text) \/ Contains(r["customer_id"], text)}
           IN \E a \in OrderBy(names, "date_created", TRUE),
                 b \in OrderBy(ids, "date_created", TRUE) :
                 resp.data = OffsetLimit(a, resp.args.offset, resp.args.size)
                             \o OffsetLimit(b, resp.args.offset, resp.args.size)

\* What the claim says get_country_data(country, info) returns.
C8_Expected(country, info) ==
    LET entry == IF country \in DOMAIN country_info
                 THEN country_info[country] ELSE country_info["others"]
    IN IF info.given
       THEN IF info.key \in DOMAIN entry
            THEN [kind |-> "field", value |-> entry[info.key]]
            ELSE [kind |-> "nothing"]
       ELSE [kind |-> "entry", value |-> entry]

\* C8: for every country and every info, get_country_data does not fail;
\* an unknown country gets what "others" gets; a known country
\* gets its entry, or the entry's field info; validate_supported_country is
\* membership in the table.
C8_EveryInfo ==
    /\ resp.op = "get_country_data"
         => /\ resp.data # KeyError
            /\ resp.args.country \notin DOMAIN country_info
                 => resp.data = CountryData(country_info, "others", resp.args.info)
            /\ resp.args.country \in DOMAIN country_info
                 => resp.data = C8_Expected(resp.args.country, resp.args.info)
    /\ resp.op = "validate_supported_country"
         => resp.data = (resp.args.country \in DOMAIN country_info)

\* C9: a caller who belongs to no organization is answered Forbidden by
\* every bank endpoint, whether or not the bank id resolves.
C9_MembershipFirst ==
    (resp.op \in {"get", "update", "delete", "list", "add"} /\ resp.user = "u0")
        => resp.status = "Forbidden"

\* C10: after a successful update whose body has is_preferred = true, the
\* updated account has is_preferred = true and the body's other fields.
C10_UpdatedIsPreferred ==
    (resp.op = "update" /\ resp.status = "OK" /\ resp.body["is_preferred"] = TRUE)
        => /\ banks[resp.bank_id]["is_preferred"] = TRUE
           /\ \A c \in DetailCols : banks[resp.bank_id][c] = resp.body[c]

\* C11: a bank operation by a caller leaves every account of an organization
\* the caller does not belong to as it was; and a successful update, with
\* is_preferred = true, of an account of the caller's organization leaves
\* the is_preferred flag of every account of another organization and of
\* every soft-deleted account as it was.
C11_OtherOrgsUntouched ==
    [][ /\ resp'.op \in {"add", "update", "delete"}
             => \A i \in 1..Len(banks) :
                   ~is_organization_member(resp'.user, banks[i]["organisation_id"])
                       => banks'[i] = banks[i]
        /\ ( /\ resp'.op = "update"
             /\ resp'.status = "OK"
             /\ resp'.body["is_preferred"] = TRUE
             /\ is_organization_member(resp'.user, banks[resp'.bank_id]["organisation_id"]) )
             => \A i \in 1..Len(banks) :
                   ( \/ banks[i]["organisation_id"] # banks[resp'.bank_id]["organisation_id"]
                     \/ banks[i]["is_deleted"] = TRUE )
                       => banks'[i]["is_preferred"] = banks[i]["is_preferred"] ]_vars

====
